---- MODULE Spec2Model ----
(***************************************************************************)
(* pafnuty: the GGL linear congruential generator, the LFG lagged          *)
(* Fibonacci generator (samplers/rng.py) and the HMC sampler               *)
(* (samplers/mcmc.py).                                                     *)
(*                                                                         *)
(* One client constructs one object of the library (a GGL, an LFG or an   *)
(* HMC sampler) and calls its methods.  Python integers are unbounded and  *)
(* TLC's are 32 bits wide, so the reference parameters (2**31 - 1, 16807,  *)
(* 2**32, lags 24 and 55, N = 10**6) are scaled down to the small values   *)
(* named below; the arithmetic on them is the code's.                      *)
(***************************************************************************)
EXTENDS Integers, Sequences, FiniteSets, TLC

\* ------------------------------------------------------------------ bounds
\* largest N passed to sample / norm_sample by the client
MaxN == 2
\* number of method calls the client makes on one generator
MaxCalls == 2
\* explicit seed buffers have 0 .. MaxSeedLen elements
MaxSeedLen == 3
\* epochs of an HMC sampler range over 0 .. MaxEpochs
MaxEpochs == 2
\* path_len ranges over -1 .. MaxPathLen, step_size over 0 .. MaxStepSize
MaxPathLen == 2
MaxStepSize == 2
\* scaled defaults of GGL.__init__ (rng.py:6: m=2**31-1, a=16807, c=0, seed=300416)
GGL_M == 7
GGL_A == 3
GGL_C == 0
GGL_SEED == 2
\* scaled defaults of LFG.__init__ (rng.py:85: m=2**32, a=24, b=55)
LFG_M == 8
LFG_A == 1
LFG_B == 2
\* scaled default N of sample / norm_sample (rng.py:29,52,118,139: N=10**6)
DefaultN == 3

\* ----------------------------------------------------------- input domains
Moduli == {3, 4}
Multipliers == {1, 2}
Increments == {0, 1}
Seeds == {-1, 0, 2}
LagPairs == {<<1, 2>>, <<2, 3>>}
SeedVals == {-1, 0, 1}
Counts == 0 .. MaxN
\* <<lower, upper>> of a norm_sample call: in order, equal, misordered
Ranges == {<<0, 1>>, <<1, 1>>, <<1, 0>>}

\* the seeds argument of LFG.__init__: None, or a list of integers
None == [given |-> FALSE, vals |-> <<>>]
SeedArgs ==
  {None} \cup
  {[given |-> TRUE, vals |-> v] : v \in UNION {[1 .. n -> SeedVals] : n \in 0 .. MaxSeedLen}}

\* ------------------------------------------------------------------- state
VARIABLES
  kind,      \* what the client constructed: "none", "GGL", "LFG", "HMC", "raised"
  ggl,       \* GGL fields m, a, c, seed
  lfg,       \* LFG fields m, a, b
  seeds,     \* LFG.seeds, the history
  seed_arg,  \* the seeds argument the LFG constructor was called with
  n0,        \* length of LFG.seeds when the constructor returned
  call,      \* the last method call on the generator
  ret,       \* what the last call returned or raised
  ncalls,    \* number of method calls made on the generator
  stream,    \* all values returned by GGL.sample calls, in order
  hmc,       \* HMC fields path_len, step_size, epochs and trace
  dist,      \* the target distribution passed to HMC.sample
  momentum,  \* the momentum distribution passed to HMC.sample
  pc,        \* position of HMC.sample
  loc,       \* locals of HMC.sample
  stats      \* how often HMC.sample used each collaborator

rngVars == <<ggl, lfg, seeds, seed_arg, n0, call, ret, ncalls, stream>>
hmcVars == <<hmc, dist, momentum, pc, loc, stats>>
vars == <<kind, ggl, lfg, seeds, seed_arg, n0, call, ret, ncalls, stream,
          hmc, dist, momentum, pc, loc, stats>>

\* ---------------------------------------------------------------- rng.py
\* variant: the remainder truncated toward zero, with the sign of x
CRem(x, m) == IF x >= 0 THEN x % m ELSE 0 - ((0 - x) % m)
\* Python's x % m for m > 0: the result is in 0 .. m - 1
PyMod(x, m) == x % m

\* one iteration of GGL._ggl: x = (a*x + c) % m
ggl_next(self, x) == PyMod(self.a * x + self.c, self.m)

\* [next(lcg) for i in range(N)] on a generator started at x
RECURSIVE ggl_draws(_, _, _)
ggl_draws(self, x, N) ==
  IF N <= 0 THEN <<>>
  ELSE LET y == ggl_next(self, x) IN <<y>> \o ggl_draws(self, y, N - 1)

\* GGL.sample: a new generator started at self.seed on every call
GGL_sample(self, N) == ggl_draws(self, self.seed, N)

\* np.array(samples) / m * (upper - lower) + lower, as exact fractions num / den
Normalise(samples, m, lower, upper) ==
  [i \in 1 .. Len(samples) |->
     [num |-> samples[i] * (upper - lower) + lower * m, den |-> m]]

Ok(raw, norm) == [err |-> "none", raw |-> raw, norm |-> norm]
Raised(e) == [err |-> e, raw |-> <<>>, norm |-> <<>>]

\* GGL.norm_sample
GGL_norm_sample(self, lower, upper, N) ==
  IF upper <= lower THEN Raised("ValueError")
  ELSE Ok(<<>>, Normalise(GGL_sample(self, N), self.m, lower, upper))

\* the default GGL() the LFG constructor seeds from
DefaultGGL == [m |-> GGL_M, a |-> GGL_A, c |-> GGL_C, seed |-> GGL_SEED]

\* `if seeds:` -- None and the empty list are both falsy
Truthy(arg) == arg.given /\ Len(arg.vals) > 0

\* LFG.__init__: the seeds it stores, or the error it raises
LFG_init(arg, b) ==
  IF Truthy(arg)
  THEN IF Len(arg.vals) < b
       THEN [err |-> "ValueError", seeds |-> <<>>]
       ELSE [err |-> "none", seeds |-> arg.vals]
  ELSE [err |-> "none", seeds |-> GGL_sample(DefaultGGL, b)]

\* variant: the two lags exchanged
lfg_swapped(self, h) ==
  Append(h, PyMod(h[Len(h) - self.a + 1] - h[Len(h) - self.b + 1], self.m))
\* one iteration of LFG._lfg: append (seeds[-b] - seeds[-a]) % m
lfg_next(self, h) ==
  Append(h, PyMod(h[Len(h) - self.b + 1] - h[Len(h) - self.a + 1], self.m))

\* the history after N iterations
RECURSIVE lfg_draws(_, _, _)
lfg_draws(self, h, N) ==
  IF N <= 0 THEN h ELSE lfg_draws(self, lfg_next(self, h), N - 1)

\* LFG.sample: the new history and the values yielded (each seeds[-1])
LFG_sample(self, h, N) ==
  LET h2 == lfg_draws(self, h, N)
  IN [seeds |-> h2, out |-> Ok(SubSeq(h2, Len(h) + 1, Len(h2)), <<>>)]

\* variant: the bounds verified after the draws
LFG_norm_sample_late(self, h, lower, upper, N) ==
  LET s == LFG_sample(self, h, N)
  IN IF upper <= lower
     THEN [seeds |-> s.seeds, out |-> Raised("ValueError")]
     ELSE [seeds |-> s.seeds,
           out |-> Ok(<<>>, Normalise(s.out.raw, self.m, lower, upper))]
\* LFG.norm_sample
LFG_norm_sample(self, h, lower, upper, N) ==
  IF upper <= lower
  THEN [seeds |-> h, out |-> Raised("ValueError")]
  ELSE LET s == LFG_sample(self, h, N)
       IN [seeds |-> s.seeds,
           out |-> Ok(<<>>, Normalise(s.out.raw, self.m, lower, upper))]

NoCall == [op |-> "none", lower |-> 0, upper |-> 0, N |-> 0]
SampleCall(N) == [op |-> "sample", lower |-> 0, upper |-> 0, N |-> N]
NormCall(lo, up, N) == [op |-> "norm_sample", lower |-> lo, upper |-> up, N |-> N]

\* ------------------------------------------------------------ constructors
NewGGL ==
  /\ kind = "none"
  /\ \E m \in Moduli, a \in Multipliers, c \in Increments, sd \in Seeds :
       ggl' = [m |-> m, a |-> a, c |-> c, seed |-> sd]
  /\ kind' = "GGL"
  /\ UNCHANGED <<lfg, seeds, seed_arg, n0, call, ret, ncalls, stream>>
  /\ UNCHANGED hmcVars

NewLFG ==
  /\ kind = "none"
  /\ \E arg \in SeedArgs, m \in Moduli, lag \in LagPairs :
       LET r == LFG_init(arg, lag[2])
       IN /\ seed_arg' = arg
          /\ lfg' = [m |-> m, a |-> lag[1], b |-> lag[2]]
          /\ seeds' = r.seeds
          /\ n0' = Len(r.seeds)
          /\ ret' = IF r.err = "none" THEN ret ELSE Raised(r.err)
          /\ kind' = IF r.err = "none" THEN "LFG" ELSE "raised"
  /\ UNCHANGED <<ggl, call, ncalls, stream>>
  /\ UNCHANGED hmcVars

\* --------------------------------------------------------- generator calls
GGLSample ==
  /\ kind = "GGL"
  /\ ncalls < MaxCalls
  /\ \E N \in Counts :
       LET out == GGL_sample(ggl, N)
       IN /\ call' = SampleCall(N)
          /\ ret' = Ok(out, <<>>)
          /\ stream' = stream \o out
  /\ ncalls' = ncalls + 1
  /\ UNCHANGED <<kind, ggl, lfg, seeds, seed_arg, n0>>
  /\ UNCHANGED hmcVars

GGLNormSample ==
  /\ kind = "GGL"
  /\ ncalls < MaxCalls
  /\ \E r \in Ranges, N \in Counts :
       /\ call' = NormCall(r[1], r[2], N)
       /\ ret' = GGL_norm_sample(ggl, r[1], r[2], N)
  /\ ncalls' = ncalls + 1
  /\ UNCHANGED <<kind, ggl, lfg, seeds, seed_arg, n0, stream>>
  /\ UNCHANGED hmcVars

LFGSample ==
  /\ kind = "LFG"
  /\ ncalls < MaxCalls
  /\ \E N \in Counts :
       LET r == LFG_sample(lfg, seeds, N)
       IN /\ call' = SampleCall(N)
          /\ seeds' = r.seeds
          /\ ret' = r.out
  /\ ncalls' = ncalls + 1
  /\ UNCHANGED <<kind, ggl, lfg, seed_arg, n0, stream>>
  /\ UNCHANGED hmcVars

LFGNormSample ==
  /\ kind = "LFG"
  /\ ncalls < MaxCalls
  /\ \E rg \in Ranges, N \in Counts :
       LET r == LFG_norm_sample(lfg, seeds, rg[1], rg[2], N)
       IN /\ call' = NormCall(rg[1], rg[2], N)
          /\ seeds' = r.seeds
          /\ ret' = r.out
  /\ ncalls' = ncalls + 1
  /\ UNCHANGED <<kind, ggl, lfg, seed_arg, n0, stream>>
  /\ UNCHANGED hmcVars

\* --------------------------------------------------------------- mcmc.py
\* the .name of a distribution: a string object.  The literal "Normal" that
\* Normal.__init__ assigns (distributions.py:40) is the interned constant the
\* literal of mcmc.py:50 also denotes; an equal string built at run time is
\* another object.
NormalLit == [val |-> "Normal", interned |-> TRUE]
Names ==
  {NormalLit, [val |-> "Normal", interned |-> FALSE], [val |-> "Uniform", interned |-> TRUE]}

\* name is not "Normal"  (object identity)
IsNotNormal(name) == ~(name.val = "Normal" /\ name.interned)

\* variant: rejects only when both names are unsupported
UnsupportedBoth(d, mom) == IsNotNormal(d.name) /\ IsNotNormal(mom.name)
\* the guard of mcmc.py:50
Unsupported(d, mom) == IsNotNormal(d.name) \/ IsNotNormal(mom.name)

\* int(x / y) for y > 0: true division, then truncation toward zero
Trunc(x, y) == IF x >= 0 THEN x \div y ELSE 0 - ((0 - x) \div y)

\* Normal.sample(): random.normal(self.key, ...) with a key that is never
\* split, so every call on one instance returns the same variate
Normal_sample(d) == d.draw

\* values Normal.dVdQ can return (jax.grad of the pdf); even, so that
\* step_size * dVdQ / 2 is exact
GradVals == {-2, 0, 2}
Draws == {-1, 1}

\* -2 * Normal(0, 1).logpdf(x), less the constant log(2*pi) that cancels in
\* mcmc.py:84-86
Nlp2(x) == x * x

\* twice the acceptance of mcmc.py:78-86
Acceptance2(q0, q1, p0, p1) == (Nlp2(q0) - Nlp2(q1)) + (Nlp2(p1) - Nlp2(p0))

\* variant: the position step taken before the first momentum half step
SubstepPositionFirst(l, h) ==
  LET q == l.q1 + h * l.p1
      pa == l.p1 + (h * l.dVdQ) \div 2
      pb == pa + (h * l.dVdQ) \div 2
  IN [l EXCEPT !.q1 = q, !.p1 = pb, !.s = l.s + 1]
\* one leapfrog substep, mcmc.py:71-73, on q1 and p1
Substep(l, h) ==
  LET pa == l.p1 + (h * l.dVdQ) \div 2
      q == l.q1 + h * pa
      pb == pa + (h * l.dVdQ) \div 2
  IN [l EXCEPT !.q1 = q, !.p1 = pb, !.s = l.s + 1]

\* the possible values of np.log(u) <= acceptance for u = num/den in [0, 1):
\* log(0) = -inf and log(u) < 0 decide it when u = 0 or acceptance >= 0;
\* since u >= 1/den and e > 2, it is false once -2*acceptance >= 2*den;
\* in between it depends on exp, which the model leaves open
LogLeq(u, acc2) ==
  IF u.num = 0 \/ acc2 >= 0 THEN {TRUE}
  ELSE IF 0 - acc2 >= 2 * u.den THEN {FALSE}
  ELSE BOOLEAN

\* `if array:` -- the truth value of an array
Truth(cmp) ==
  IF Len(cmp) > 1 THEN "ValueError"
  ELSE IF Len(cmp) = 1 /\ cmp[1] THEN "true"
  ELSE "false"

\* rng = LFG(); rng.norm_sample() of mcmc.py:89-90
DefaultLFG == [m |-> LFG_M, a |-> LFG_A, b |-> LFG_B]
AcceptanceDraw ==
  LFG_norm_sample(DefaultLFG, LFG_init(None, DefaultLFG.b).seeds, 0, 1, DefaultN)

NoTrace == [set |-> FALSE, vals |-> <<>>]
NoLoc ==
  [steps |-> 0, samples |-> <<>>, e |-> 0, q0 |-> 0, q1 |-> 0, p0 |-> 0, p1 |-> 0,
   dVdQ |-> 0, gradAt |-> 0, s |-> 0, tested |-> 0, accepted |-> FALSE, err |-> "none"]
NoStats == [momentumDraws |-> 0, gradEvals |-> 0, logpdfEvals |-> 0, lfgBuilt |-> 0, uDrawn |-> 0]
NoDist == [name |-> NormalLit, draw |-> 0]

\* HMC.__init__
NewHMC ==
  /\ kind = "none"
  /\ \E pl \in -1 .. MaxPathLen, ss \in 0 .. MaxStepSize, ep \in 0 .. MaxEpochs :
       hmc' = [path_len |-> pl, step_size |-> ss, epochs |-> ep, trace |-> NoTrace]
  /\ kind' = "HMC"
  /\ pc' = "idle"
  /\ UNCHANGED <<dist, momentum, loc, stats>>
  /\ UNCHANGED rngVars

\* HMC.sample, lines 50-57: the family check and the setup
SampleEnter ==
  /\ kind = "HMC"
  /\ pc = "idle"
  /\ \E dn \in Names, mn \in Names, dr \in Draws :
       LET d == [name |-> dn, draw |-> 0]
           mom == [name |-> mn, draw |-> dr]
       IN /\ dist' = d
          /\ momentum' = mom
          /\ IF Unsupported(d, mom)
             THEN /\ pc' = "raised"
                  /\ loc' = [loc EXCEPT !.err = "ValueError"]
                  /\ stats' = stats
             ELSE IF hmc.step_size = 0
             THEN /\ pc' = "raised"
                  /\ loc' = [loc EXCEPT !.err = "ZeroDivisionError"]
                  /\ stats' = stats
             ELSE /\ pc' = "loop"
                  /\ loc' = [loc EXCEPT !.steps = Trunc(hmc.path_len, hmc.step_size),
                                        !.samples = <<Normal_sample(mom)>>]
                  /\ stats' = [stats EXCEPT !.momentumDraws = @ + 1]
  /\ UNCHANGED <<kind, hmc>>
  /\ UNCHANGED rngVars

\* lines 59-67: the head of an epoch
EpochBegin ==
  /\ kind = "HMC"
  /\ pc = "loop"
  /\ loc.e < hmc.epochs
  /\ \E g \in GradVals :
       LET q == loc.samples[Len(loc.samples)]
           p == Normal_sample(momentum)
       IN loc' = [loc EXCEPT !.q0 = q, !.q1 = q, !.p0 = p, !.p1 = p,
                             !.dVdQ = g, !.gradAt = q, !.s = 0]
  /\ stats' = [stats EXCEPT !.momentumDraws = @ + 1, !.gradEvals = @ + 1]
  /\ pc' = "leapfrog"
  /\ UNCHANGED <<kind, hmc, dist, momentum>>
  /\ UNCHANGED rngVars

\* lines 70-73: one pass of the leapfrog loop
Leapfrog ==
  /\ kind = "HMC"
  /\ pc = "leapfrog"
  /\ loc.s < loc.steps
  /\ loc' = Substep(loc, hmc.step_size)
  /\ UNCHANGED <<kind, hmc, dist, momentum, pc, stats>>
  /\ UNCHANGED rngVars

\* line 75: the loop is over, flip the momentum
Flip ==
  /\ kind = "HMC"
  /\ pc = "leapfrog"
  /\ loc.s >= loc.steps
  /\ loc' = [loc EXCEPT !.p1 = 0 - loc.p1]
  /\ pc' = "metropolis"
  /\ UNCHANGED <<kind, hmc, dist, momentum, stats>>
  /\ UNCHANGED rngVars

\* lines 78-94: the acceptance test
Metropolis ==
  /\ kind = "HMC"
  /\ pc = "metropolis"
  /\ LET acc2 == Acceptance2(loc.q0, loc.q1, loc.p0, loc.p1)
         u == AcceptanceDraw.out.norm
     IN \E cmp \in [1 .. Len(u) -> BOOLEAN] :
          /\ \A i \in 1 .. Len(u) : cmp[i] \in LogLeq(u[i], acc2)
          /\ stats' = [stats EXCEPT !.logpdfEvals = @ + 4, !.lfgBuilt = @ + 1,
                                    !.uDrawn = @ + Len(u)]
          /\ IF Truth(cmp) = "ValueError"
             THEN /\ pc' = "raised"
                  /\ loc' = [loc EXCEPT !.err = "ValueError", !.tested = @ + 1]
             ELSE /\ pc' = "loop"
                  /\ loc' = [loc EXCEPT
                       !.samples = Append(@, IF Truth(cmp) = "true" THEN loc.q1 ELSE loc.q0),
                       !.accepted = (Truth(cmp) = "true"),
                       !.tested = @ + 1,
                       !.e = @ + 1]
  /\ UNCHANGED <<kind, hmc, dist, momentum>>
  /\ UNCHANGED rngVars

\* lines 96-97: store and return the trace
Return ==
  /\ kind = "HMC"
  /\ pc = "loop"
  /\ loc.e >= hmc.epochs
  /\ hmc' = [hmc EXCEPT !.trace = [set |-> TRUE, vals |-> loc.samples]]
  /\ pc' = "returned"
  /\ UNCHANGED <<kind, dist, momentum, loc, stats>>
  /\ UNCHANGED rngVars

\* ------------------------------------------------------------ specification
Init ==
  /\ kind = "none"
  /\ ggl = [m |-> 1, a |-> 0, c |-> 0, seed |-> 0]
  /\ lfg = [m |-> 1, a |-> 1, b |-> 1]
  /\ seeds = <<>>
  /\ seed_arg = None
  /\ n0 = 0
  /\ call = NoCall
  /\ ret = Ok(<<>>, <<>>)
  /\ ncalls = 0
  /\ stream = <<>>
  /\ hmc = [path_len |-> 0, step_size |-> 0, epochs |-> 0, trace |-> NoTrace]
  /\ dist = NoDist
  /\ momentum = NoDist
  /\ pc = "none"
  /\ loc = NoLoc
  /\ stats = NoStats

Next ==
  \/ NewGGL
  \/ NewLFG
  \/ GGLSample
  \/ GGLNormSample
  \/ LFGSample
  \/ LFGNormSample
  \/ NewHMC
  \/ SampleEnter
  \/ EpochBegin
  \/ Leapfrog
  \/ Flip
  \/ Metropolis
  \/ Return

Spec == Init /\ [][Next]_vars

\* ------------------------------------------------------------------ claims
InRange(x, m) == 0 <= x /\ x < m
Last(sq) == sq[Len(sq)]
SampleRunning == kind = "HMC" /\ pc \notin {"none", "idle"}

\* C1: draws on one GGL instance continue the stream: the values returned by
\* successive sample calls, concatenated, are the values one sample call of
\* the total length returns on a fresh instance with the same parameters.
C1_StreamContinues ==
  kind = "GGL" => stream = ggl_draws(ggl, ggl.seed, Len(stream))

\* C2 as stated: every history element at a (0-based) index n >= lag_b is
\* (history[n - lag_b] - history[n - lag_a]) mod m, whatever the seed buffer.
C2_RecurrenceFromLagB ==
  kind = "LFG" =>
    \A i \in (lfg.b + 1) .. Len(seeds) :
      seeds[i] = (seeds[i - lfg.b] - seeds[i - lfg.a]) % lfg.m

\* C2 amended: the recurrence holds at every index past the seed values the
\* constructor stored, that is for every value a draw appended.
C2_RecurrenceFromSeedEnd ==
  kind = "LFG" =>
    \A i \in (n0 + 1) .. Len(seeds) :
      seeds[i] = (seeds[i - lfg.b] - seeds[i - lfg.a]) % lfg.m

\* draws were appended to an explicit seed buffer longer than lag_b
C2_Witness ==
  /\ kind = "LFG"
  /\ seed_arg.given
  /\ n0 > lfg.b
  /\ Len(seeds) >= n0 + 2

\* C3: an explicit seed buffer of any length in 0 .. lag_b - 1, the empty
\* one included, makes the LFG constructor raise.
C3_ShortBufferRejected ==
  (kind \in {"LFG", "raised"} /\ seed_arg.given /\ Len(seed_arg.vals) < lfg.b)
    => (kind = "raised" /\ ret.err = "ValueError")

\* C4: with Normal target and momentum and step_count >= 1, HMC.sample ends
\* by returning a trace of epochs + 1 elements.
C4_TraceLength ==
  (/\ kind = "HMC"
   /\ pc \in {"raised", "returned"}
   /\ dist.name = NormalLit
   /\ momentum.name = NormalLit
   /\ hmc.step_size > 0
   /\ hmc.path_len >= hmc.step_size)
    => (pc = "returned" /\ hmc.trace.set /\ Len(hmc.trace.vals) = hmc.epochs + 1)

\* C5: when floor(path_len / step_size) < 1, HMC.sample raises during setup:
\* it neither enters the epoch loop nor returns a trace.
C5_StepCountChecked ==
  (/\ SampleRunning
   /\ dist.name = NormalLit
   /\ momentum.name = NormalLit
   /\ hmc.step_size > 0
   /\ hmc.path_len \div hmc.step_size < 1)
    => (pc = "raised" /\ loc.tested = 0 /\ stats.gradEvals = 0)

\* C6: a norm_sample call with upper <= lower raises ValueError and leaves
\* the generator as it was: the LFG history and the GGL fields are unchanged,
\* so later calls return what they would have returned without it.
C6_RangeErrorBeforeDraw ==
  [][(/\ ncalls' = ncalls + 1
      /\ call'.op = "norm_sample"
      /\ call'.upper <= call'.lower)
       => (/\ ret' = [err |-> "ValueError", raw |-> <<>>, norm |-> <<>>]
           /\ seeds' = seeds
           /\ lfg' = lfg
           /\ ggl' = ggl
           /\ stream' = stream)]_vars

\* a misordered norm_sample call raised on an LFG that had already drawn
C6_Witness ==
  /\ kind = "LFG"
  /\ call.op = "norm_sample"
  /\ call.upper <= call.lower
  /\ call.N >= 1
  /\ ret.err = "ValueError"
  /\ Len(seeds) > n0

\* C7: when the target's or the momentum's name is not "Normal", HMC.sample
\* raises before anything else: no momentum draw, no gradient, no log-density,
\* no generator, no epoch, no trace stored.
C7_UnsupportedRaisesFirst ==
  (SampleRunning /\ (dist.name.val # "Normal" \/ momentum.name.val # "Normal"))
    => (/\ pc = "raised"
        /\ loc.err = "ValueError"
        /\ stats = NoStats
        /\ loc.samples = <<>>
        /\ loc.e = 0
        /\ loc.tested = 0
        /\ ~hmc.trace.set)

\* only the momentum is unsupported, on a sampler that could otherwise run
C7_Witness ==
  /\ kind = "HMC"
  /\ pc = "raised"
  /\ dist.name = NormalLit
  /\ momentum.name.val = "Uniform"
  /\ hmc.epochs >= 1
  /\ hmc.step_size > 0
  /\ hmc.path_len >= hmc.step_size

\* C8: every raw value a draw returns is in 0 .. m - 1, for the GGL and for
\* the LFG (default or explicit seeds, which need not be in range themselves).
C8_RawInRange ==
  /\ (kind = "GGL" /\ call.op = "sample")
       => \A i \in 1 .. Len(ret.raw) : InRange(ret.raw[i], ggl.m)
  /\ kind = "GGL" => \A i \in 1 .. Len(stream) : InRange(stream[i], ggl.m)
  /\ kind = "LFG" => \A i \in (n0 + 1) .. Len(seeds) : InRange(seeds[i], lfg.m)
  /\ (kind = "LFG" /\ call.op = "sample")
       => \A i \in 1 .. Len(ret.raw) : InRange(ret.raw[i], lfg.m)

\* an LFG seeded with a negative value returned two raw draws
C8_Witness ==
  /\ kind = "LFG"
  /\ call.op = "sample"
  /\ Len(ret.raw) >= 2
  /\ \E i \in 1 .. n0 : seeds[i] < 0

\* C9: each acceptance test draws exactly one uniform variate from an LFG
\* built for it and appends exactly one element, q1 if accepted and q0 if not.
C9_OneVariatePerEpoch ==
  (kind = "HMC" /\ loc.tested >= 1)
    => (/\ pc # "raised"
        /\ stats.lfgBuilt = loc.tested
        /\ stats.uDrawn = loc.tested
        /\ Len(loc.samples) = loc.tested + 1
        /\ pc = "loop" => Last(loc.samples) = IF loc.accepted THEN loc.q1 ELSE loc.q0)

\* C10: in an epoch the gradient is evaluated once, at q0, before the first
\* substep; q0 and p0 stay the trace's last element and the momentum draw;
\* after s substeps p1 = p0 + s*h*dVdQ and q1 = q0 + s*h*p0 + s*s*h*h*dVdQ/2
\* (momentum half step, position step, momentum half step, in this order);
\* after the loop the momentum is negated once: p1 = -(p0 + steps*h*dVdQ).
\* The closed forms are for a step count that is a count (steps >= 0).
C10_Leapfrog ==
  (kind = "HMC" /\ pc \in {"leapfrog", "metropolis"})
    => LET h == hmc.step_size
           g == loc.dVdQ
           n == loc.s
       IN /\ stats.gradEvals = loc.e + 1
          /\ loc.gradAt = loc.q0
          /\ loc.q0 = Last(loc.samples)
          /\ loc.p0 = momentum.draw
          /\ loc.q1 = loc.q0 + n * h * loc.p0 + (n * n * h * h * g) \div 2
          /\ pc = "leapfrog" => loc.p1 = loc.p0 + n * h * g
          /\ (pc = "metropolis" /\ loc.steps >= 0)
               => (n = loc.steps /\ loc.p1 = 0 - (loc.p0 + loc.steps * h * g))

\* an epoch of two substeps under a non-zero gradient reached its acceptance test
C10_Witness ==
  /\ kind = "HMC"
  /\ pc = "metropolis"
  /\ loc.steps >= 2
  /\ loc.dVdQ # 0
  /\ loc.p1 # 0 - loc.p0

====
